---- MODULE Spec2Model ----
(***************************************************************************)
(* A model of github.com/skillian/pkgsyms: the runtime registry            *)
(* (symbol.go, error.go) and the declaration scanner of cmd/pkgsyms.       *)
(*                                                                         *)
(* Encodings.  A Go type is [name, ptr]: a named type under ptr pointer    *)
(* indirections.  An interface{} value is [typ, v]: its dynamic type and   *)
(* the ordinal of the value among the values of that type; the nil         *)
(* interface is NilValue.  A Symbol is the tagged union                    *)
(* [kind, name, value, rtyp, addr] of Const, Func, Type and Var.  A        *)
(* *Package is a position in the heap, 0 is the nil pointer.               *)
(***************************************************************************)
EXTENDS Integers, Sequences, FiniteSets, TLC

(* ------------------------------ bounds --------------------------------- *)

\* goroutines that call Of, or Add and Lookup, concurrently
NumCallers == 2
\* longest argument list of one Symbols.Add call
MaxAdd == 2
\* values per Go type
MaxVal == 2

Callers == 1..NumCallers
PkgNames == {"a", "b"}
SymNames == {"X", "Y"}

(* --------------------------- Go values --------------------------------- *)

NoType == [name |-> "", ptr |-> 0]
Named(n) == [name |-> n, ptr |-> 0]
PtrTo(t) == [t EXCEPT !.ptr = @ + 1]

\* the nil interface{}
NilValue == [typ |-> NoType, v |-> 0]
IsNilValue(x) == x.typ = NoType

\* reflect.TypeOf(x); the nil reflect.Type is NoType
TypeOf(x) == x.typ

\* reflect.Type.Elem() of a pointer type; not defined (a panic) otherwise
ElemPanics(t) == t = NoType \/ t.ptr = 0
Elem(t) == [t EXCEPT !.ptr = @ - 1]

\* (*T)(nil): the nil pointer to T, as an interface{}
NilPtr(t) == [typ |-> PtrTo(t), v |-> 0]

(* --------------------------- error.go ---------------------------------- *)

NilError == [nil |-> TRUE, Pkg |-> "", Sym |-> ""]
NotFound(pkg, sym) == [nil |-> FALSE, Pkg |-> pkg, Sym |-> sym]

\* fmt.Sprintf("%q", s) of a string with nothing to escape
Quote(s) == "\"" \o s \o "\""

NotFoundError(nf) ==
    LET pkg == IF Len(nf.Pkg) > 0 THEN "package " \o Quote(nf.Pkg) \o ": " ELSE nf.Pkg
        sym == IF Len(nf.Sym) > 0 THEN "symbol " \o Quote(nf.Sym) \o ": " ELSE nf.Sym
    IN  pkg \o sym \o "not found"

(* --------------------------- symbols ----------------------------------- *)

NilSymbol == [kind |-> "nil", name |-> "", value |-> NilValue, rtyp |-> NoType, addr |-> 0]

MakeConst(name, value) ==
    [kind |-> "Const", name |-> name, value |-> value, rtyp |-> NoType, addr |-> 0]

MakeFunc(name, fval) ==
    [kind |-> "Func", name |-> name, value |-> fval, rtyp |-> NoType, addr |-> 0]

\* MakeType; the first is the variant that forgets Elem()
MakeTypeNoElem(name, pval) ==
    [kind |-> "Type", name |-> name, value |-> NilValue, rtyp |-> TypeOf(pval), addr |-> 0]
MakeType(name, pval) ==
    [kind |-> "Type", name |-> name, value |-> NilValue,
     rtyp |-> Elem(TypeOf(pval)), addr |-> 0]

\* Symbol.Name() of Const, Func and Type
Name(s) == s.name

\* Type.Type()
TypeType(s) == s.rtyp

\* What a Get() hands back in its interface{}: an ordinary value, or (for a
\* Type) a reflect.Type
Boxed(value, rtyp) == [value |-> value, rtyp |-> rtyp]

\* Var.Get panics when addr holds no pointer
VarGetPanics(s) == s.addr = 0

\* Symbol.Get() of each variant; mem is the program's variable storage, read
\* through Var.addr
Get(s, mem) ==
    CASE s.kind = "Const" -> Boxed(s.value, NoType)
      [] s.kind = "Func"  -> Boxed(s.value, NoType)
      [] s.kind = "Type"  -> Boxed(NilValue, s.rtyp)
      [] s.kind = "Var"   -> Boxed(mem[s.addr], NoType)

(* ----------------------- Symbols (symbol.go) --------------------------- *)

EmptyMap == [n \in {} |-> 0]

\* The zero value: a nil map and a nil slice.  names holds Go's 0-based
\* indexes into slice.
ZeroSymbols == [namesNil |-> TRUE, names |-> EmptyMap, sliceNil |-> TRUE, slice |-> <<>>]

MakeSymbols(capacity) ==
    IF capacity < 0
    THEN [namesNil |-> FALSE, names |-> EmptyMap, sliceNil |-> TRUE, slice |-> <<>>]
    ELSE [namesNil |-> FALSE, names |-> EmptyMap, sliceNil |-> FALSE, slice |-> <<>>]

\* Symbols.Lookup under the mutex: [sym, err, panic]; panic is the index
\* out of range of syms.slice[i]
\* (the first is the variant that fills NotFound.Pkg instead of Sym)
SymbolsLookupPkgField(syms, name) ==
    IF syms.namesNil \/ name \notin DOMAIN syms.names
    THEN [sym |-> NilSymbol, err |-> NotFound(name, ""), panic |-> FALSE]
    ELSE [sym |-> syms.slice[syms.names[name] + 1], err |-> NilError, panic |-> FALSE]
SymbolsLookup(syms, name) ==
    IF syms.namesNil
    THEN [sym |-> NilSymbol, err |-> NotFound("", name), panic |-> FALSE]
    ELSE IF name \notin DOMAIN syms.names
    THEN [sym |-> NilSymbol, err |-> NotFound("", name), panic |-> FALSE]
    ELSE LET i == syms.names[name]
         IN  IF i + 1 > Len(syms.slice)
             THEN [sym |-> NilSymbol, err |-> NilError, panic |-> TRUE]
             ELSE [sym |-> syms.slice[i + 1], err |-> NilError, panic |-> FALSE]

\* The body of Add's loop for s: skip a name already defined, else append
\* (the first two are the variants that overwrite a duplicate, and that
\* append without the check)
AddOneOverwrite(syms, s) ==
    IF Name(s) \in DOMAIN syms.names
    THEN [syms EXCEPT !.slice[syms.names[Name(s)] + 1] = s]
    ELSE [syms EXCEPT !.names = @ @@ (Name(s) :> Len(syms.slice)),
                      !.sliceNil = FALSE,
                      !.slice = Append(@, s)]
AddOneNoCheck(syms, s) ==
    [syms EXCEPT !.names = (Name(s) :> Len(syms.slice)) @@ @,
                 !.sliceNil = FALSE,
                 !.slice = Append(@, s)]
AddOne(syms, s) ==
    IF Name(s) \in DOMAIN syms.names
    THEN syms
    ELSE [syms EXCEPT !.names = @ @@ (Name(s) :> Len(syms.slice)),
                      !.sliceNil = FALSE,
                      !.slice = Append(@, s)]

RECURSIVE AddLoop(_, _, _)
AddLoop(syms, ss, i) ==
    IF i > Len(ss) THEN syms ELSE AddLoop(AddOne(syms, ss[i]), ss, i + 1)

\* Symbols.Add under the mutex
SymbolsAdd(syms, ss) ==
    LET init == IF syms.namesNil
                THEN [namesNil |-> FALSE, names |-> EmptyMap,
                      sliceNil |-> FALSE, slice |-> <<>>]
                ELSE syms
    IN  AddLoop(init, ss, 1)

(* ------------------------------ state ---------------------------------- *)

VARIABLES
    pkgs,     \* the sync.Map: package name -> *Package
    heap,     \* the allocated Packages, a *Package is a position in it
    pc,       \* each caller's place in Of: "idle" or "loadOrStore"
    loc,      \* each caller's locals in Of: name and pkg
    ofRets,   \* history: <<name, p>> for every Of(name) that returned p
    added,    \* history: <<p, n>> for every record named n handed to p.Add
    last,     \* the step just taken, with its arguments and results
    syms,     \* one Symbols collection on its own
    mem,      \* the program's variables: address -> value
    vrec,     \* the Var records the program made over its variables
    pkg,      \* the scanned package: pkg.Syntax, its files
    decls,    \* g.decls
    work,     \* the nodes ast.Inspect has still to visit, the next one first
    scanpc,   \* main's place: "generate" until g.decls is sorted, then "done"
    halted,   \* a panic ended the program
    mutex,    \* Symbols.mutex of each Package: 0, or the goroutine that holds it
    call,     \* each goroutine's call of Symbols.Add or Symbols.Lookup
    ncalls    \* the number of calls made

regVars == <<pkgs, heap, pc, loc, ofRets, added>>
varVars == <<mem, vrec>>
scanVars == <<pkg, decls, work, scanpc>>
lockVars == <<mutex, call, ncalls>>
vars == <<pkgs, heap, pc, loc, ofRets, added, last, syms, mem, vrec,
          pkg, decls, work, scanpc, halted, mutex, call, ncalls>>

\* The constructor calls whose results the callers register, as the
\* generated init() writes them: pkgsyms.MakeConst("X", X), ...  int, func()
\* and T are types of the calling program.
IntValue(v) == [typ |-> Named("int"), v |-> v]
FuncValue(v) == [typ |-> Named("func()"), v |-> v]
CtorPool ==
    {[ctor |-> "Const", name |-> "X", arg |-> IntValue(1)],
     [ctor |-> "Const", name |-> "X", arg |-> IntValue(2)],
     [ctor |-> "Type", name |-> "Y", arg |-> NilPtr(Named("T"))],
     [ctor |-> "Type", name |-> "Y", arg |-> IntValue(1)],
     [ctor |-> "Func", name |-> "Y", arg |-> FuncValue(1)]}

Build(c) ==
    CASE c.ctor = "Const" -> MakeConst(c.name, c.arg)
      [] c.ctor = "Func"  -> MakeFunc(c.name, c.arg)
      [] c.ctor = "Type"  -> MakeType(c.name, c.arg)

BuildAll(cs) == [i \in DOMAIN cs |-> Build(cs[i])]

\* A MakeType among the arguments panics in Elem, before Add is called
BuildPanics(cs) ==
    \E i \in DOMAIN cs : cs[i].ctor = "Type" /\ ElemPanics(TypeOf(cs[i].arg))

RECURSIVE SeqsUpTo(_, _)
SeqsUpTo(S, n) ==
    IF n = 0 THEN {<<>>}
    ELSE LET shorter == SeqsUpTo(S, n - 1)
         IN  shorter \cup {Append(q, x) : q \in shorter, x \in S}

AddArgs == SeqsUpTo(CtorPool, MaxAdd)

\* The names looked up: those registered, one never registered, the empty one
LookupNames == SymNames \cup {"Z", ""}

\* The parts of the program a specification leaves out stay as they start
IdleOthers ==
    /\ mem = <<>>
    /\ vrec = <<>>
    /\ pkg = <<>>
    /\ decls = <<>>
    /\ work = <<>>
    /\ scanpc = "done"

\* A goroutine's call of p.Symbols.Add(ss...) or p.Symbols.Lookup(name): the
\* place it is at ("idle" outside a call), Add's loop index i (from 1) and
\* its local name, the results of Lookup, and (history) the collection as
\* it was when the call took the mutex
NoCall ==
    [op |-> "", at |-> "idle", p |-> 0, ss |-> <<>>, i |-> 0, name |-> "",
     sym |-> NilSymbol, err |-> NilError, pre |-> ZeroSymbols]

(* --------------------- the package index (symbol.go) ------------------- *)

\* &Package{Name: name}
NewPackage(name) == [Name |-> name, Symbols |-> ZeroSymbols]

\* The pointers the program holds
Held == {r[2] : r \in ofRets}

RegInit ==
    /\ pkgs = EmptyMap
    /\ heap = <<>>
    /\ pc = [g \in Callers |-> "idle"]
    /\ loc = [g \in Callers |-> [name |-> "", pkg |-> 0]]
    /\ ofRets = {}
    /\ added = {}
    /\ mutex = <<>>
    /\ call = [g \in Callers |-> NoCall]
    /\ ncalls = 0

\* Of, lines 38-42: pkgs.Load, and on a miss the allocation of a Package
OfLoad(g, name) ==
    /\ ~halted
    /\ pc[g] = "idle"
    /\ IF name \in DOMAIN pkgs
       THEN /\ ofRets' = ofRets \cup {<<name, pkgs[name]>>}
            /\ last' = [op |-> "Of", name |-> name, pkg |-> pkgs[name]]
            /\ UNCHANGED <<heap, pc, loc>>
       ELSE /\ heap' = Append(heap, NewPackage(name))
            /\ loc' = [loc EXCEPT ![g] = [name |-> name, pkg |-> Len(heap) + 1]]
            /\ pc' = [pc EXCEPT ![g] = "loadOrStore"]
            /\ last' = [op |-> "OfLoad", name |-> name, pkg |-> 0]
            /\ UNCHANGED ofRets
    /\ UNCHANGED <<pkgs, added, syms, varVars, scanVars, halted, lockVars>>

\* Of, lines 43-47: pkgs.LoadOrStore and the return
\* (the first is the variant that calls Store)
OfStore(g) ==
    /\ ~halted
    /\ pc[g] = "loadOrStore"
    /\ pkgs' = (loc[g].name :> loc[g].pkg) @@ pkgs
    /\ ofRets' = ofRets \cup {<<loc[g].name, loc[g].pkg>>}
    /\ last' = [op |-> "Of", name |-> loc[g].name, pkg |-> loc[g].pkg]
    /\ pc' = [pc EXCEPT ![g] = "idle"]
    /\ loc' = [loc EXCEPT ![g] = [name |-> "", pkg |-> 0]]
    /\ UNCHANGED <<heap, added, syms, varVars, scanVars, halted, lockVars>>
OfLoadOrStore(g) ==
    /\ ~halted
    /\ pc[g] = "loadOrStore"
    /\ LET name == loc[g].name
           loaded == name \in DOMAIN pkgs
           v == IF loaded THEN pkgs[name] ELSE loc[g].pkg
       IN  /\ pkgs' = IF loaded THEN pkgs ELSE pkgs @@ (name :> loc[g].pkg)
           /\ ofRets' = ofRets \cup {<<name, v>>}
           /\ last' = [op |-> "Of", name |-> name, pkg |-> v]
    /\ pc' = [pc EXCEPT ![g] = "idle"]
    /\ loc' = [loc EXCEPT ![g] = [name |-> "", pkg |-> 0]]
    /\ UNCHANGED <<heap, added, syms, varVars, scanVars, halted, lockVars>>

\* The package-level Lookup
\* (the first is the variant that stores a new Package on a miss)
LookupCreates(name) ==
    /\ ~halted
    /\ IF name \in DOMAIN pkgs
       THEN /\ last' = [op |-> "Lookup", name |-> name, pkg |-> pkgs[name], err |-> NilError]
            /\ UNCHANGED <<pkgs, heap>>
       ELSE /\ heap' = Append(heap, NewPackage(name))
            /\ pkgs' = pkgs @@ (name :> Len(heap) + 1)
            /\ last' = [op |-> "Lookup", name |-> name, pkg |-> 0,
                        err |-> NotFound(name, "")]
    /\ UNCHANGED <<pc, loc, ofRets, added, syms, varVars, scanVars, halted, lockVars>>
Lookup(name) ==
    /\ ~halted
    /\ IF name \notin DOMAIN pkgs
       THEN last' = [op |-> "Lookup", name |-> name, pkg |-> 0,
                     err |-> NotFound(name, "")]
       ELSE last' = [op |-> "Lookup", name |-> name, pkg |-> pkgs[name],
                     err |-> NilError]
    /\ UNCHANGED <<regVars, syms, varVars, scanVars, halted, lockVars>>

\* The callers race in Of and look packages up
OfInit ==
    /\ RegInit
    /\ last = [op |-> "init"]
    /\ syms = ZeroSymbols
    /\ IdleOthers
    /\ halted = FALSE

OfNext ==
    \/ \E g \in Callers, name \in PkgNames : OfLoad(g, name)
    \/ \E g \in Callers : OfLoadOrStore(g)
    \/ \E name \in PkgNames : Lookup(name)

SpecOf == OfInit /\ [][OfNext]_vars

(* ------------------ one Symbols collection (symbol.go) ----------------- *)

\* syms.Add(Build(cs[1]), ...)
SymsAdd(cs) ==
    /\ ~halted
    /\ IF BuildPanics(cs)
       THEN /\ halted' = TRUE
            /\ syms' = syms
            /\ last' = [op |-> "MakeType", args |-> cs]
       ELSE /\ halted' = FALSE
            /\ syms' = SymbolsAdd(syms, BuildAll(cs))
            /\ last' = [op |-> "Add", args |-> cs]
    /\ UNCHANGED <<regVars, varVars, scanVars, lockVars>>

\* syms.Lookup(name)
SymsLookup(name) ==
    /\ ~halted
    /\ LET r == SymbolsLookup(syms, name)
       IN  /\ last' = [op |-> "SymLookup", name |-> name, sym |-> r.sym, err |-> r.err]
           /\ halted' = r.panic
    /\ UNCHANGED <<regVars, syms, varVars, scanVars, lockVars>>

\* The collection starts as the zero value a new Package embeds, or as
\* MakeSymbols made it
SymsInit ==
    /\ RegInit
    /\ last = [op |-> "init"]
    /\ syms \in {NewPackage("a").Symbols} \cup {MakeSymbols(c) : c \in {-1, 0, MaxAdd}}
    /\ IdleOthers
    /\ halted = FALSE

SymsNext ==
    \/ \E cs \in AddArgs : SymsAdd(cs)
    \/ \E name \in LookupNames : SymsLookup(name)

SpecSyms == SymsInit /\ [][SymsNext]_vars

(* --------------------- the packages and their symbols ------------------ *)

\* The goroutine that sets the packages up
Main == 1

\* p.Add(Build(cs[1]), ...) on a *Package the program holds
\* (the first is the variant in which the packages share one collection)
PkgAddShared(p, cs) ==
    /\ ~halted
    /\ p \in Held
    /\ IF BuildPanics(cs)
       THEN /\ halted' = TRUE
            /\ last' = [op |-> "MakeType", pkg |-> p]
            /\ UNCHANGED <<heap, added>>
       ELSE /\ halted' = FALSE
            /\ heap' = [q \in DOMAIN heap |->
                           [heap[q] EXCEPT !.Symbols = SymbolsAdd(@, BuildAll(cs))]]
            /\ added' = added \cup {<<p, cs[i].name>> : i \in DOMAIN cs}
            /\ last' = [op |-> "Add", pkg |-> p]
    /\ UNCHANGED <<pkgs, pc, loc, ofRets, syms, varVars, scanVars, lockVars>>
PkgAdd(p, cs) ==
    /\ ~halted
    /\ p \in Held
    /\ IF BuildPanics(cs)
       THEN /\ halted' = TRUE
            /\ last' = [op |-> "MakeType", pkg |-> p]
            /\ UNCHANGED <<heap, added>>
       ELSE /\ halted' = FALSE
            /\ heap' = [heap EXCEPT ![p].Symbols = SymbolsAdd(@, BuildAll(cs))]
            /\ added' = added \cup {<<p, cs[i].name>> : i \in DOMAIN cs}
            /\ last' = [op |-> "Add", pkg |-> p]
    /\ UNCHANGED <<pkgs, pc, loc, ofRets, syms, varVars, scanVars, lockVars>>

\* p.Lookup(name) on a *Package the program holds
PkgSymLookup(p, name) ==
    /\ ~halted
    /\ p \in Held
    /\ LET r == SymbolsLookup(heap[p].Symbols, name)
       IN  /\ last' = [op |-> "SymLookup", pkg |-> p, name |-> name,
                       sym |-> r.sym, err |-> r.err]
           /\ halted' = r.panic
    /\ UNCHANGED <<regVars, syms, varVars, scanVars, lockVars>>

Init == OfInit

Next ==
    \/ \E name \in PkgNames : OfLoad(Main, name)
    \/ OfLoadOrStore(Main)
    \/ \E name \in PkgNames : Lookup(name)
    \/ \E p \in DOMAIN heap, cs \in AddArgs : PkgAdd(p, cs)
    \/ \E p \in DOMAIN heap, name \in LookupNames : PkgSymLookup(p, name)

Spec == Init /\ [][Next]_vars

(* ------------- concurrent calls on the Symbols of packages ------------- *)

\* The calls the goroutines make in one run
MaxCalls == 3

\* The argument lists of the concurrent Adds; two of them register different
\* records under the name X
ConcArgs ==
    {<<[ctor |-> "Const", name |-> "X", arg |-> IntValue(1)]>>,
     <<[ctor |-> "Const", name |-> "X", arg |-> IntValue(2)],
       [ctor |-> "Func", name |-> "Y", arg |-> FuncValue(1)]>>}
ConcNames == {"X", "Y"}

\* g calls heap[p].Symbols.Add(Build(cs[1]), ...)
CallAdd(g, p, cs) ==
    /\ ~halted
    /\ call[g].at = "idle"
    /\ ncalls < MaxCalls
    /\ call' = [call EXCEPT ![g] = [NoCall EXCEPT !.op = "Add", !.at = "lock",
                                                  !.p = p, !.ss = BuildAll(cs)]]
    /\ ncalls' = ncalls + 1
    /\ last' = [op |-> "call", g |-> g]
    /\ UNCHANGED <<regVars, syms, varVars, scanVars, halted, mutex>>

\* g calls heap[p].Symbols.Lookup(name)
CallLookup(g, p, name) ==
    /\ ~halted
    /\ call[g].at = "idle"
    /\ ncalls < MaxCalls
    /\ call' = [call EXCEPT ![g] = [NoCall EXCEPT !.op = "Lookup", !.at = "lock",
                                                  !.p = p, !.name = name]]
    /\ ncalls' = ncalls + 1
    /\ last' = [op |-> "call", g |-> g]
    /\ UNCHANGED <<regVars, syms, varVars, scanVars, halted, mutex>>

\* syms.mutex.Lock(), lines 102 and 117: g waits until the mutex of its
\* collection is free and takes it
\* (the first is the variant that does not wait)
LockNoWait(g) ==
    /\ ~halted
    /\ call[g].at = "lock"
    /\ mutex' = [mutex EXCEPT ![call[g].p] = g]
    /\ call' = [call EXCEPT ![g].at = IF call[g].op = "Add" THEN "init" ELSE "read",
                            ![g].pre = heap[call[g].p].Symbols]
    /\ last' = [op |-> "Lock", g |-> g]
    /\ UNCHANGED <<regVars, syms, varVars, scanVars, halted, ncalls>>
Lock(g) ==
    /\ ~halted
    /\ call[g].at = "lock"
    /\ mutex[call[g].p] = 0
    /\ mutex' = [mutex EXCEPT ![call[g].p] = g]
    /\ call' = [call EXCEPT ![g].at = IF call[g].op = "Add" THEN "init" ELSE "read",
                            ![g].pre = heap[call[g].p].Symbols]
    /\ last' = [op |-> "Lock", g |-> g]
    /\ UNCHANGED <<regVars, syms, varVars, scanVars, halted, ncalls>>

\* Add, lines 119-120: if syms.names == nil, make the map
AddInit(g) ==
    /\ ~halted
    /\ call[g].at = "init"
    /\ LET p == call[g].p
       IN  IF heap[p].Symbols.namesNil
           THEN /\ heap' = [heap EXCEPT ![p].Symbols.namesNil = FALSE]
                /\ call' = [call EXCEPT ![g].at = "initSlice"]
           ELSE /\ heap' = heap
                /\ call' = [call EXCEPT ![g].at = "loop", ![g].i = 1]
    /\ last' = [op |-> "AddInit", g |-> g]
    /\ UNCHANGED <<pkgs, pc, loc, ofRets, added, syms, varVars, scanVars, halted,
                   mutex, ncalls>>

\* Add, line 121: make the slice
AddInitSlice(g) ==
    /\ ~halted
    /\ call[g].at = "initSlice"
    /\ heap' = [heap EXCEPT ![call[g].p].Symbols.sliceNil = FALSE,
                            ![call[g].p].Symbols.slice = <<>>]
    /\ call' = [call EXCEPT ![g].at = "loop", ![g].i = 1]
    /\ last' = [op |-> "AddInitSlice", g |-> g]
    /\ UNCHANGED <<pkgs, pc, loc, ofRets, added, syms, varVars, scanVars, halted,
                   mutex, ncalls>>

\* Add, lines 123-127: the next s of ss, its name, and the check of names
AddLoopHead(g) ==
    /\ ~halted
    /\ call[g].at = "loop"
    /\ LET c == call[g]
           names == heap[c.p].Symbols.names
       IN  IF c.i > Len(c.ss)
           THEN call' = [call EXCEPT ![g].at = "unlock"]
           ELSE IF Name(c.ss[c.i]) \in DOMAIN names
           THEN call' = [call EXCEPT ![g].i = c.i + 1]
           ELSE call' = [call EXCEPT ![g].at = "store", ![g].name = Name(c.ss[c.i])]
    /\ last' = [op |-> "AddLoopHead", g |-> g]
    /\ UNCHANGED <<regVars, syms, varVars, scanVars, halted, mutex, ncalls>>

\* Add, line 128: syms.names[name] = len(syms.slice)
AddStore(g) ==
    /\ ~halted
    /\ call[g].at = "store"
    /\ LET c == call[g]
       IN  heap' = [heap EXCEPT ![c.p].Symbols.names =
                                    (c.name :> Len(heap[c.p].Symbols.slice)) @@ @]
    /\ call' = [call EXCEPT ![g].at = "append"]
    /\ last' = [op |-> "AddStore", g |-> g]
    /\ UNCHANGED <<pkgs, pc, loc, ofRets, added, syms, varVars, scanVars, halted,
                   mutex, ncalls>>

\* Add, line 129: syms.slice = append(syms.slice, s)
AddAppend(g) ==
    /\ ~halted
    /\ call[g].at = "append"
    /\ LET c == call[g]
       IN  /\ heap' = [heap EXCEPT ![c.p].Symbols.sliceNil = FALSE,
                                   ![c.p].Symbols.slice = Append(@, c.ss[c.i])]
           /\ call' = [call EXCEPT ![g].at = "loop", ![g].i = c.i + 1]
    /\ last' = [op |-> "AddAppend", g |-> g]
    /\ UNCHANGED <<pkgs, pc, loc, ofRets, added, syms, varVars, scanVars, halted,
                   mutex, ncalls>>

\* Lookup, lines 104-111: the reads of names and slice; an index out of
\* range panics
LookupRead(g) ==
    /\ ~halted
    /\ call[g].at = "read"
    /\ LET r == SymbolsLookup(heap[call[g].p].Symbols, call[g].name)
       IN  /\ call' = [call EXCEPT ![g].at = "unlock", ![g].sym = r.sym, ![g].err = r.err]
           /\ halted' = r.panic
    /\ last' = [op |-> "LookupRead", g |-> g]
    /\ UNCHANGED <<regVars, syms, varVars, scanVars, mutex, ncalls>>

\* The deferred syms.mutex.Unlock(), lines 103 and 118, and the return
Unlock(g) ==
    /\ ~halted
    /\ call[g].at = "unlock"
    /\ LET c == call[g]
       IN  /\ mutex' = [mutex EXCEPT ![c.p] = 0]
           /\ added' = IF c.op = "Add"
                       THEN added \cup {<<c.p, Name(c.ss[i])>> : i \in DOMAIN c.ss}
                       ELSE added
           /\ last' = [op |-> c.op, g |-> g, pkg |-> c.p, name |-> c.name,
                       sym |-> c.sym, err |-> c.err]
    /\ call' = [call EXCEPT ![g] = NoCall]
    /\ UNCHANGED <<pkgs, heap, pc, loc, ofRets, syms, varVars, scanVars, halted, ncalls>>

\* The program holds the packages a and b; their collections are the zero
\* values their Packages embed
ConcInit ==
    /\ pkgs = ("a" :> 1) @@ ("b" :> 2)
    /\ heap = <<NewPackage("a"), NewPackage("b")>>
    /\ pc = [g \in Callers |-> "idle"]
    /\ loc = [g \in Callers |-> [name |-> "", pkg |-> 0]]
    /\ ofRets = {<<"a", 1>>, <<"b", 2>>}
    /\ added = {}
    /\ last = [op |-> "init"]
    /\ syms = ZeroSymbols
    /\ IdleOthers
    /\ halted = FALSE
    /\ mutex = [p \in DOMAIN heap |-> 0]
    /\ call = [g \in Callers |-> NoCall]
    /\ ncalls = 0

ConcNext ==
    \/ \E g \in Callers, p \in DOMAIN heap, cs \in ConcArgs : CallAdd(g, p, cs)
    \/ \E g \in Callers, p \in DOMAIN heap, name \in ConcNames : CallLookup(g, p, name)
    \/ \E g \in Callers : Lock(g)
    \/ \E g \in Callers : AddInit(g)
    \/ \E g \in Callers : AddInitSlice(g)
    \/ \E g \in Callers : AddLoopHead(g)
    \/ \E g \in Callers : AddStore(g)
    \/ \E g \in Callers : AddAppend(g)
    \/ \E g \in Callers : LookupRead(g)
    \/ \E g \in Callers : Unlock(g)

SpecConc == ConcInit /\ [][ConcNext]_vars

(* ------------------------- Var (symbol.go) ----------------------------- *)

\* The program's variables by address, with their declared types
VarTypes == <<Named("int"), Named("string"), Named("interface{}")>>
Addrs == DOMAIN VarTypes

\* The values of the program: nil, and MaxVal + 1 values of each basic type
BasicValues == {[typ |-> Named(t), v |-> v] : t \in {"int", "string"}, v \in 0..MaxVal}
Values == BasicValues \cup {NilValue}

\* The zero value of a variable of type t
ZeroOf(t) == IF t = Named("interface{}") THEN NilValue ELSE [typ |-> t, v |-> 0]

\* A value of type vt may be stored in a variable of type t
AssignableTo(vt, t) == vt = t \/ (t = Named("interface{}") /\ vt # NoType)

\* Var{name: name, addr: &variable}
VarOf(name, addr) ==
    [kind |-> "Var", name |-> name, value |-> NilValue, rtyp |-> NoType, addr |-> addr]

\* reflect.Value.Set panics on the zero Value that reflect.ValueOf(nil) is,
\* and on a value not assignable to the variable's type
SetPanics(v, val) ==
    \/ v.addr = 0
    \/ IsNilValue(val)
    \/ ~AssignableTo(TypeOf(val), VarTypes[v.addr])

\* v.Set(val) of the i-th Var
\* (the first is the variant that sets a copy of the variable)
VarSetLost(i, val) ==
    /\ ~halted
    /\ halted' = SetPanics(vrec[i], val)
    /\ last' = [op |-> "Set", var |-> i, val |-> val, panic |-> halted']
    /\ UNCHANGED <<regVars, syms, mem, vrec, scanVars, lockVars>>
VarSet(i, val) ==
    /\ ~halted
    /\ IF SetPanics(vrec[i], val)
       THEN /\ halted' = TRUE
            /\ mem' = mem
       ELSE /\ halted' = FALSE
            /\ mem' = [mem EXCEPT ![vrec[i].addr] = val]
    /\ last' = [op |-> "Set", var |-> i, val |-> val, panic |-> halted']
    /\ UNCHANGED <<regVars, syms, vrec, scanVars, lockVars>>

\* v.Get() of the i-th Var
VarGet(i) ==
    /\ ~halted
    /\ halted' = VarGetPanics(vrec[i])
    /\ last' = [op |-> "Get", var |-> i, prev |-> last.op,
                ret |-> IF halted' THEN Boxed(NilValue, NoType) ELSE Get(vrec[i], mem)]
    /\ UNCHANGED <<regVars, syms, varVars, scanVars, lockVars>>

\* The program assigns to its variable: a value the compiler accepts
Write(a, val) ==
    /\ ~halted
    /\ AssignableTo(TypeOf(val), VarTypes[a]) \/ val = ZeroOf(VarTypes[a])
    /\ mem' = [mem EXCEPT ![a] = val]
    /\ last' = [op |-> "Write", addr |-> a, val |-> val]
    /\ UNCHANGED <<regVars, syms, vrec, scanVars, halted, lockVars>>

\* The program reads its variable
Read(a) ==
    /\ ~halted
    /\ last' = [op |-> "Read", addr |-> a, prev |-> last.op, val |-> mem[a]]
    /\ UNCHANGED <<regVars, syms, varVars, scanVars, halted, lockVars>>

VarInit ==
    /\ RegInit
    /\ last = [op |-> "init"]
    /\ syms = ZeroSymbols
    /\ mem = [a \in Addrs |-> ZeroOf(VarTypes[a])]
    /\ vrec = <<VarOf("V1", 1), VarOf("V2", 2), VarOf("V3", 3), VarOf("V1b", 1)>>
    /\ pkg = <<>>
    /\ decls = <<>>
    /\ work = <<>>
    /\ scanpc = "done"
    /\ halted = FALSE

VarNext ==
    \/ \E i \in DOMAIN vrec, val \in Values : VarSet(i, val)
    \/ \E i \in DOMAIN vrec : VarGet(i)
    \/ \E a \in Addrs, val \in Values : Write(a, val)
    \/ \E a \in Addrs : Read(a)

SpecVar == VarInit /\ [][VarNext]_vars

(* ------------------- the scanner (cmd/pkgsyms main.go) ----------------- *)

\* An identifier is the sequence of its characters; an expression is its
\* printed text, "" where the syntax tree holds nil.
Upper == {"A", "B", "C", "D", "E", "F", "G", "H", "I", "J", "K", "L", "M",
          "N", "O", "P", "Q", "R", "S", "T", "U", "V", "W", "X", "Y", "Z"}

\* ast.Ident.IsExported: the name begins with an upper-case letter
IsExported(id) == id # <<>> /\ Head(id) \in Upper

\* declKind
badDecl == 0
constDecl == 1
typeDecl == 2
funcDecl == 3
varDecl == 4

\* Syntax nodes.  Kids are the children ast.Inspect visits when the
\* callback returns true.
Node(node, tok, specs, recv, name, kids) ==
    [node |-> node, Tok |-> tok, Specs |-> specs, Recv |-> recv, Name |-> name,
     Kids |-> kids]
Other(kids) == Node("Other", "", <<>>, FALSE, <<>>, kids)
File(ds) == Node("File", "", <<>>, FALSE, <<>>, ds)
GenDecl(tok, specs) ==
    Node("GenDecl", tok, specs, FALSE, <<>>, [i \in DOMAIN specs |-> Other(<<>>)])
\* A function: its body is a BlockStmt of DeclStmts, one for each local
\* declaration
FuncDecl(recv, name, locals) ==
    Node("FuncDecl", "", <<>>, recv, name,
         <<Other([i \in DOMAIN locals |-> Other(<<locals[i]>>)])>>)
TypeSpec(name) == [Name |-> name, Names |-> <<>>, Type |-> "", Values |-> <<>>]
ValueSpec(names, type, values) ==
    [Name |-> <<>>, Names |-> names, Type |-> type, Values |-> values]

\* The declarations a scanned file may hold at package scope; no two of
\* them bind the same package-scope name
DeclPool ==
    {\* const Pi = 3
     GenDecl("CONST", <<ValueSpec(<<<<"P", "i">>>>, "", <<"3">>)>>),
     \* type Shape interface{}
     GenDecl("TYPE", <<TypeSpec(<<"S", "h">>)>>),
     \* type shape struct{}
     GenDecl("TYPE", <<TypeSpec(<<"s", "h">>)>>),
     \* func Area() int { type Inner int; return 0 }
     FuncDecl(FALSE, <<"A", "r">>, <<GenDecl("TYPE", <<TypeSpec(<<"I", "n">>)>>)>>),
     \* func (s Shape) Name() string { return "" }
     FuncDecl(TRUE, <<"N", "a">>, <<>>),
     \* func (s Shape) Kind() int { const Deep = 1; return Deep }
     FuncDecl(TRUE, <<"K", "i">>,
              <<GenDecl("CONST", <<ValueSpec(<<<<"D", "e">>>>, "", <<"1">>)>>)>>),
     \* func helper() { var Hidden = 2; _ = Hidden }
     FuncDecl(FALSE, <<"h", "e">>,
              <<GenDecl("VAR", <<ValueSpec(<<<<"H", "i">>>>, "", <<"2">>)>>)>>),
     \* func other() { const Pi = 4; _ = Pi }
     FuncDecl(FALSE, <<"o", "t">>,
              <<GenDecl("CONST", <<ValueSpec(<<<<"P", "i">>>>, "", <<"4">>)>>)>>),
     \* var Count, total int
     GenDecl("VAR", <<ValueSpec(<<<<"C", "o">>, <<"t", "o">>>>, "int", <<>>)>>),
     \* var ( name = "x"; Zed = 0 )
     GenDecl("VAR", <<ValueSpec(<<<<"n", "a">>>>, "", <<"\"x\"">>),
                      ValueSpec(<<<<"Z", "e">>>>, "", <<"0">>)>>),
     \* const ( A = iota; B )
     GenDecl("CONST", <<ValueSpec(<<<<"A">>>>, "", <<"iota">>),
                        ValueSpec(<<<<"B">>>>, "", <<>>)>>),
     \* var X, Y = f()
     GenDecl("VAR", <<ValueSpec(<<<<"X">>, <<"Y">>>>, "", <<"f()">>)>>),
     \* import "fmt"
     GenDecl("IMPORT", <<ValueSpec(<<>>, "", <<>>)>>)}

\* decl{g: g, kind: kind, Name: name, Type: type}
Decl(kind, name, type) == [kind |-> kind, Name |-> name, Type |-> type]

\* inspect, case token.TYPE: one descriptor for each exported type name
RECURSIVE TypeDecls(_, _)
TypeDecls(specs, i) ==
    IF i > Len(specs) THEN <<>>
    ELSE (IF IsExported(specs[i].Name)
          THEN <<Decl(typeDecl, specs[i].Name, "")>> ELSE <<>>)
         \o TypeDecls(specs, i + 1)

\* inspect, case token.CONST and token.VAR: the loops over the specs and
\* over the names of each; [out, panic], panic being the index out of
\* range of vs.Values[i], which ends the loops
RECURSIVE ValueDecls(_, _, _, _)
ValueDecls(kind, specs, s, i) ==
    IF s > Len(specs) THEN [out |-> <<>>, panic |-> FALSE]
    ELSE IF i > Len(specs[s].Names) THEN ValueDecls(kind, specs, s + 1, 1)
    ELSE LET vs == specs[s]
             rest == ValueDecls(kind, specs, s, i + 1)
         IN  IF ~IsExported(vs.Names[i]) THEN rest
             ELSE IF vs.Type = "" /\ i > Len(vs.Values)
             THEN [out |-> <<>>, panic |-> TRUE]
             ELSE [out |-> <<Decl(kind, vs.Names[i],
                                  IF vs.Type = "" THEN vs.Values[i] ELSE vs.Type)>>
                           \o rest.out,
                   panic |-> rest.panic]

\* inspect(n): [out, descend, panic]: the descriptors appended, the
\* callback's result, and whether it panicked
Inspect(n) ==
    IF n.node = "GenDecl" /\ n.Tok = "TYPE"
    THEN [out |-> TypeDecls(n.Specs, 1), descend |-> FALSE, panic |-> FALSE]
    ELSE IF n.node = "GenDecl" /\ n.Tok \in {"CONST", "VAR"}
    THEN LET kind0 == IF n.Tok = "CONST" THEN constDecl ELSE badDecl
             kind == IF kind0 = badDecl THEN varDecl ELSE kind0
             r == ValueDecls(kind, n.Specs, 1, 1)
         IN  [out |-> r.out, descend |-> FALSE, panic |-> r.panic]
    ELSE IF n.node = "FuncDecl"
    THEN IF n.Recv THEN [out |-> <<>>, descend |-> TRUE, panic |-> FALSE]
         ELSE IF ~IsExported(n.Name) THEN [out |-> <<>>, descend |-> TRUE, panic |-> FALSE]
         ELSE [out |-> <<Decl(funcDecl, n.Name, "")>>, descend |-> FALSE, panic |-> FALSE]
    ELSE [out |-> <<>>, descend |-> TRUE, panic |-> FALSE]

\* One callback of ast.Inspect in generate: the next node is inspected and,
\* if the callback returns true, its children are visited next.  (The
\* callback ast.Inspect makes with nil after a node's children appends
\* nothing and is left out.)
InspectStep(kinds) ==
    /\ ~halted
    /\ scanpc = "generate"
    /\ work # <<>>
    /\ Head(work).node \in kinds
    /\ LET n == Head(work)
           r == Inspect(n)
       IN  /\ decls' = decls \o r.out
           /\ halted' = r.panic
           /\ work' = IF r.panic THEN work
                      ELSE IF r.descend THEN n.Kids \o Tail(work)
                      ELSE Tail(work)
           /\ last' = [op |-> "inspect", node |-> n.node]
    /\ UNCHANGED <<regVars, syms, varVars, pkg, scanpc, lockVars>>

InspectGenDecl == InspectStep({"GenDecl"})
InspectFuncDecl == InspectStep({"FuncDecl"})
InspectOther == InspectStep({"File", "Other"})

\* declKind and Name order the descriptors: main's less function.
\* strings.Compare orders by bytes; Alphabet lists them in that order.
Alphabet == <<"A", "B", "C", "D", "E", "F", "G", "H", "I", "J", "K", "L", "M",
              "N", "O", "P", "Q", "R", "S", "T", "U", "V", "W", "X", "Y", "Z",
              "a", "b", "c", "d", "e", "f", "g", "h", "i", "j", "k", "l", "m",
              "n", "o", "p", "q", "r", "s", "t", "u", "v", "w", "x", "y", "z">>
Rank(ch) == CHOOSE i \in DOMAIN Alphabet : Alphabet[i] = ch

RECURSIVE StrLess(_, _)
StrLess(a, b) ==
    IF b = <<>> THEN FALSE
    ELSE IF a = <<>> THEN TRUE
    ELSE IF Head(a) # Head(b) THEN Rank(Head(a)) < Rank(Head(b))
    ELSE StrLess(Tail(a), Tail(b))

Less(a, b) ==
    LET c == a.kind - b.kind
    IN  IF c # 0 THEN c < 0 ELSE StrLess(a.Name, b.Name)

\* The places of a sorted sequence t at which x may stand
InsertSorted(x, t) ==
    {SubSeq(t, 1, k) \o <<x>> \o SubSeq(t, k + 1, Len(t)) :
        k \in {k \in 0..Len(t) :
                   /\ \A i \in 1..k : ~Less(x, t[i])
                   /\ \A i \in (k + 1)..Len(t) : ~Less(t[i], x)}}

\* The orders sort.Slice may leave q in: it is not stable, descriptors that
\* compare equal end in any order
RECURSIVE SortedOrders(_)
SortedOrders(q) ==
    IF q = <<>> THEN {<<>>}
    ELSE UNION {InsertSorted(q[Len(q)], t) : t \in SortedOrders(SubSeq(q, 1, Len(q) - 1))}

\* main, after generate: sort.Slice(g.decls, less)
SortDecls ==
    /\ ~halted
    /\ scanpc = "generate"
    /\ work = <<>>
    /\ decls' \in SortedOrders(decls)
    /\ scanpc' = "done"
    /\ last' = [op |-> "sort", node |-> ""]
    /\ UNCHANGED <<regVars, syms, varVars, pkg, work, halted, lockVars>>

\* The scanned package: up to MaxDecls declarations of DeclPool, each at
\* most once, in one file or split over two
MaxDecls == 2

Injective(q) == \A i, j \in DOMAIN q : q[i] = q[j] => i = j
DeclLists == {q \in SeqsUpTo(DeclPool, MaxDecls) : Injective(q)}
Packages ==
    {<<File(q)>> : q \in DeclLists}
    \cup {<<File(SubSeq(q, 1, 1)), File(SubSeq(q, 2, Len(q)))>> :
             q \in {r \in DeclLists : Len(r) >= 2}}

ScanInit ==
    /\ RegInit
    /\ last = [op |-> "init"]
    /\ syms = ZeroSymbols
    /\ mem = <<>>
    /\ vrec = <<>>
    /\ pkg \in Packages
    /\ decls = <<>>
    /\ work = pkg
    /\ scanpc = "generate"
    /\ halted = FALSE

ScanNext ==
    \/ InspectGenDecl
    \/ InspectFuncDecl
    \/ InspectOther
    \/ SortDecls

SpecScan == ScanInit /\ [][ScanNext]_vars

(* ------------------------------ claims --------------------------------- *)

\* The pointers Of(name) has returned
OfReturned(name) == {r[2] : r \in {q \in ofRets : q[1] = name}}

\* Of(name) has been called: it returned, or a caller is inside it
OfCalled(name) ==
    \/ OfReturned(name) # {}
    \/ \E g \in Callers : pc[g] = "loadOrStore" /\ loc[g].name = name

\* C1: under every interleaving of concurrent Of(n) calls, those that miss
\* the first Load and race on LoadOrStore included, every call returns the
\* same one *Package, which is the one entry the index holds for n.
C1_OneInstancePerName ==
    \A n \in PkgNames :
        OfReturned(n) # {} =>
            /\ Cardinality(OfReturned(n)) = 1
            /\ n \in DOMAIN pkgs
            /\ OfReturned(n) = {pkgs[n]}
            /\ heap[pkgs[n]].Name = n

\* Two calls of Of for one name both missed the Load, both allocated, and
\* both have returned.
C1_Witness ==
    \E n \in PkgNames :
        /\ Cardinality({i \in DOMAIN heap : heap[i].Name = n}) >= 2
        /\ \A g \in Callers : pc[g] = "idle"
        /\ OfReturned(n) # {}

\* C6: the package-level Lookup is read-only.  For a name Of was never
\* called with it returns nil and NotFound{Pkg: name} with an empty Sym and
\* creates no entry; once Of(name) returned p it returns p and a nil error.
C6_LookupReadOnly ==
    /\ [](last.op = "Lookup" =>
            /\ ~OfCalled(last.name) =>
                    /\ last.pkg = 0
                    /\ last.err = NotFound(last.name, "")
                    /\ last.err.Sym = ""
                    /\ last.name \notin DOMAIN pkgs
            /\ OfReturned(last.name) # {} =>
                    /\ OfReturned(last.name) = {last.pkg}
                    /\ last.err = NilError)
    /\ [][last'.op = "Lookup" => pkgs' = pkgs /\ heap' = heap]_vars

\* A Lookup of a name Of was never called with, while another package is
\* in the index.
C6_Witness ==
    /\ last.op = "Lookup"
    /\ ~OfCalled(last.name)
    /\ ~last.err.nil
    /\ pkgs # EmptyMap

\* The names a collection holds before a call (none under a nil map)
Present(c) == IF c.namesNil THEN {} ELSE DOMAIN c.names

\* The first argument of cs that bears the name n
FirstNamed(cs, n) ==
    cs[CHOOSE i \in DOMAIN cs :
           /\ cs[i].name = n
           /\ \A j \in DOMAIN cs : cs[j].name = n => i <= j]

Found(s) == [sym |-> s, err |-> NilError, panic |-> FALSE]

\* C2: Add is first-registration-wins.  A record whose name is already in
\* the collection, from an earlier call or from earlier in the same
\* argument list, is dropped without an error: Lookup of the name still
\* returns the record registered first, and a call whose every argument is
\* such a duplicate leaves the collection as it was.
C2_FirstRegistrationWins ==
    [][last'.op = "Add" =>
          LET cs == last'.args IN
          /\ ~halted'
          /\ \A n \in Present(syms) :
                 SymbolsLookup(syms', n) = SymbolsLookup(syms, n)
          /\ \A i \in DOMAIN cs :
                 cs[i].name \notin Present(syms) =>
                     SymbolsLookup(syms', cs[i].name) = Found(Build(FirstNamed(cs, cs[i].name)))
          /\ (cs # <<>> /\ \A i \in DOMAIN cs : cs[i].name \in Present(syms)) =>
                 syms' = syms]_vars

\* An Add whose first argument was dropped for a record of the same name
\* that an earlier call registered.
C2_Witness ==
    /\ last.op = "Add"
    /\ last.args # <<>>
    /\ SymbolsLookup(syms, last.args[1].name).err.nil
    /\ SymbolsLookup(syms, last.args[1].name).sym # Build(last.args[1])

\* C3: after Add registers a record under a name the collection did not
\* hold (the zero value a new Package embeds included), Lookup of the name
\* returns that record and no error, and its Get returns what it was built
\* from: the value of a Const or Func, and for a Type built from (*T)(nil)
\* the type T, not *T.
C3_LookupAfterAdd ==
    [][last'.op = "Add" =>
          \A i \in DOMAIN last'.args :
              LET c == last'.args[i]
                  r == SymbolsLookup(syms', c.name)
              IN  (c.name \notin Present(syms) /\ c = FirstNamed(last'.args, c.name)) =>
                      /\ r.err = NilError /\ ~r.panic
                      /\ r.sym = Build(c)
                      /\ Name(r.sym) = c.name
                      /\ c.ctor \in {"Const", "Func"} =>
                             Get(r.sym, mem) = Boxed(c.arg, NoType)
                      /\ c.ctor = "Type" =>
                             /\ c.arg.typ = PtrTo(TypeType(r.sym))
                             /\ Get(r.sym, mem) = Boxed(NilValue, TypeType(r.sym))
                             /\ Get(r.sym, mem).rtyp # c.arg.typ]_vars

\* One Add on the zero value registered a Const and a Type.
C3_Witness ==
    /\ last.op = "Add"
    /\ Len(last.args) = 2
    /\ last.args[1].ctor = "Const"
    /\ last.args[2].ctor = "Type"
    /\ syms.slice = BuildAll(last.args)

\* names[n] = i exactly when slice[i] is named n (i counted from 0), no two
\* records of slice share a name, names has as many keys as slice has
\* records
SymbolsInv(c) ==
    /\ c.namesNil => c.names = EmptyMap /\ c.slice = <<>>
    /\ c.sliceNil => c.slice = <<>>
    /\ \A n \in DOMAIN c.names : c.names[n] \in 0..(Len(c.slice) - 1)
    /\ \A i \in 0..(Len(c.slice) - 1) :
           \A n \in DOMAIN c.names \cup {Name(c.slice[j]) : j \in DOMAIN c.slice} :
               (n \in DOMAIN c.names /\ c.names[n] = i) <=> Name(c.slice[i + 1]) = n
    /\ \A i, j \in DOMAIN c.slice : Name(c.slice[i]) = Name(c.slice[j]) => i = j
    /\ Cardinality(DOMAIN c.names) = Len(c.slice)

\* C4: in every state of a collection that Add and Lookup calls reach from
\* the zero value or from MakeSymbols, the invariant of names and slice
\* holds, and slice only grows at its end: the records keep their places.
C4_NamesSliceInvariant ==
    /\ []SymbolsInv(syms)
    /\ [][/\ Len(syms'.slice) >= Len(syms.slice)
          /\ SubSeq(syms'.slice, 1, Len(syms.slice)) = syms.slice]_vars

\* A collection of two records after an Add that also held a duplicate.
C4_Witness ==
    /\ last.op = "Add"
    /\ Len(syms.slice) = 2
    /\ Len(last.args) > Cardinality({last.args[i].name : i \in DOMAIN last.args})

\* C5: the collections of two packages are apart.  Lookup(X) on a package
\* succeeds only if a record named X was handed to Add on that very
\* package, an Add on one package changes no other package, and the
\* packages of two names are two packages.
C5_PackagesIsolated ==
    /\ [](/\ (last.op = "SymLookup" /\ last.err.nil) =>
                 <<last.pkg, last.name>> \in added
          /\ \A a, b \in DOMAIN pkgs : a # b => pkgs[a] # pkgs[b])
    /\ [][last'.op = "Add" =>
              \A q \in DOMAIN heap : q # last'.pkg => heap'[q] = heap[q]]_vars

\* Lookup on the package of one name misses a name registered in the
\* package of another.
C5_Witness ==
    /\ last.op = "SymLookup"
    /\ ~last.err.nil
    /\ \E a, b \in DOMAIN pkgs :
           /\ a # b
           /\ last.pkg = pkgs[b]
           /\ <<pkgs[a], last.name>> \in added
           /\ SymbolsLookup(heap[pkgs[a]].Symbols, last.name).err.nil

\* C7: Symbols.Lookup of a name the collection does not hold, a collection
\* never added to included, returns a nil Symbol and NotFound{Sym: name}
\* with an empty Pkg as an error value, without a panic, and changes
\* nothing; the message is "symbol "name": not found", or "not found" for
\* the empty name.
C7_SymbolNotFound ==
    /\ []((last.op = "SymLookup" /\ last.name \notin Present(syms)) =>
              /\ ~halted
              /\ last.sym = NilSymbol
              /\ last.err = NotFound("", last.name)
              /\ last.err.Sym = last.name /\ last.err.Pkg = ""
              /\ NotFoundError(last.err) # ""
              /\ NotFoundError(last.err) =
                     IF last.name = "" THEN "not found"
                     ELSE "symbol \"" \o last.name \o "\": not found")
    /\ [][last'.op = "SymLookup" => syms' = syms]_vars

\* A Lookup that missed in a collection that holds other records.
C7_Witness ==
    /\ last.op = "SymLookup"
    /\ ~last.err.nil
    /\ last.name # ""
    /\ Len(syms.slice) > 0

\* C8: for a Var over the address of a variable, a Get() that follows
\* Set(v) on a Var over that address returns v, and so does a read of the
\* variable itself; Get() returns the variable's current value, a value the
\* program wrote itself included; and Set changes no Var's name or address.
\* (A Set that reflect refuses panics: nothing follows it.)
C8_VarSetGet ==
    [][/\ (last.op = "Set" /\ last'.op = "Get"
           /\ vrec[last'.var].addr = vrec[last.var].addr) =>
               last'.ret = Boxed(last.val, NoType)
       /\ (last.op = "Set" /\ last'.op = "Read"
           /\ last'.addr = vrec[last.var].addr) =>
               last'.val = last.val
       /\ (last.op = "Write" /\ last'.op = "Get"
           /\ vrec[last'.var].addr = last.addr) =>
               last'.ret = Boxed(last.val, NoType)
       /\ last'.op = "Get" => last'.ret = Boxed(mem[vrec[last'.var].addr], NoType)
       /\ last'.op = "Set" => vrec' = vrec]_vars

\* A Get on one Var that follows a Set of a non-zero value through another
\* Var over the same variable.
C8_Witness ==
    /\ last.op = "Get"
    /\ last.prev = "Set"
    /\ last.ret.value.v > 0
    /\ \E i \in DOMAIN vrec :
           /\ i # last.var
           /\ vrec[i].addr = vrec[last.var].addr
    /\ last.ret.value # ZeroOf(VarTypes[vrec[last.var].addr])

\* The declarations at package scope of the scanned package
TopDecls == UNION {{pkg[f].Kids[i] : i \in DOMAIN pkg[f].Kids} : f \in DOMAIN pkg}

\* <<kind, name>> of every exported name a package-scope declaration binds;
\* a method binds no package-scope name
TopBindings ==
    UNION {
        IF d.node = "FuncDecl"
        THEN IF ~d.Recv /\ IsExported(d.Name) THEN {<<funcDecl, d.Name>>} ELSE {}
        ELSE IF d.Tok = "TYPE"
        THEN {<<typeDecl, d.Specs[i].Name>> :
                 i \in {j \in DOMAIN d.Specs : IsExported(d.Specs[j].Name)}}
        ELSE IF d.Tok \in {"CONST", "VAR"}
        THEN UNION {{<<IF d.Tok = "CONST" THEN constDecl ELSE varDecl, d.Specs[i].Names[k]>> :
                        k \in {j \in DOMAIN d.Specs[i].Names :
                                   IsExported(d.Specs[i].Names[j])}} :
                    i \in DOMAIN d.Specs}
        ELSE {}
      : d \in TopDecls}

\* The descriptors named n
Named_(n) == {i \in DOMAIN decls : decls[i].Name = n}

\* C9: for every scanned package the scan ends with exactly one descriptor
\* for each exported name declared at package scope, of the kind of its
\* declaration, with none for a method or an unexported name, and with an
\* empty type expression on Function and Type descriptors.
C9_OneDescriptorPerExportedDecl ==
    (scanpc = "done" \/ halted) =>
        /\ \A b \in TopBindings :
               /\ Cardinality(Named_(b[2])) = 1
               /\ \A i \in Named_(b[2]) : decls[i].kind = b[1]
        /\ \A i \in DOMAIN decls :
               /\ IsExported(decls[i].Name)
               /\ decls[i].kind = funcDecl => <<funcDecl, decls[i].Name>> \in TopBindings
               /\ decls[i].kind \in {funcDecl, typeDecl} => decls[i].Type = ""

\* C10: no descriptor comes from a declaration inside a function body:
\* every descriptor is the one descriptor of a package-scope declaration of
\* its name and kind.
C10_NoNestedScope ==
    \A i \in DOMAIN decls :
        /\ <<decls[i].kind, decls[i].Name>> \in TopBindings
        /\ \A j \in DOMAIN decls :
               (decls[j].kind = decls[i].kind /\ decls[j].Name = decls[i].Name) => i = j

\* The initializer that corresponds to name i of value spec s of a group:
\* its own expression; the one call that yields all the names; or, on a
\* const line without expressions, that of the line it repeats
RECURSIVE Initializer(_, _, _)
Initializer(specs, s, i) ==
    IF i <= Len(specs[s].Values) THEN specs[s].Values[i]
    ELSE IF Len(specs[s].Values) = 1 THEN specs[s].Values[1]
    ELSE IF s > 1 THEN Initializer(specs, s - 1, i)
    ELSE ""

\* <<kind, name, type expression>> of every exported name a const or var
\* group at package scope binds
TopValueBindings ==
    UNION {
        IF d.node = "GenDecl" /\ d.Tok \in {"CONST", "VAR"}
        THEN UNION {{<<IF d.Tok = "CONST" THEN constDecl ELSE varDecl,
                       d.Specs[s].Names[i],
                       IF d.Specs[s].Type # "" THEN d.Specs[s].Type
                       ELSE Initializer(d.Specs, s, i)>> :
                        i \in {j \in DOMAIN d.Specs[s].Names :
                                   IsExported(d.Specs[s].Names[j])}} :
                    s \in DOMAIN d.Specs}
        ELSE {}
      : d \in TopDecls}

\* C11: the scan never fails, and it ends with one descriptor for each
\* exported name of each const or var group at package scope: of the
\* group's kind, its type expression the explicit type of its spec if there
\* is one and otherwise the text of the initializer that corresponds to the
\* name, also where the spec has fewer initializers than names.
C11_ValueSpecDescriptors ==
    /\ ~halted
    /\ scanpc = "done" =>
           \A b \in TopValueBindings :
               Cardinality({i \in DOMAIN decls : decls[i] = Decl(b[1], b[2], b[3])}) = 1

\* generate: the descriptors ast.Inspect's walk over the nodes w appends,
\* up to a panic
RECURSIVE Generate(_)
Generate(w) ==
    IF w = <<>> THEN <<>>
    ELSE LET n == Head(w)
             r == Inspect(n)
         IN  r.out \o (IF r.panic THEN <<>>
                       ELSE IF r.descend THEN Generate(n.Kids \o Tail(w))
                       ELSE Generate(Tail(w)))

\* The packages that hold the declarations of the scanned one, in any
\* order and in any split over files
Reorderings ==
    {p \in Packages :
        UNION {{p[f].Kids[i] : i \in DOMAIN p[f].Kids} : f \in DOMAIN p} = TopDecls}

\* C12: the sorted list is in ascending order of kind and, within a kind, of
\* name, and it is the only list a run of the scanner over these
\* declarations can end with, whatever their order in the source files.
C12_SortedDeterministic ==
    scanpc = "done" =>
        /\ \A i, j \in DOMAIN decls :
               i < j => \/ decls[i].kind < decls[j].kind
                        \/ /\ decls[i].kind = decls[j].kind
                           /\ ~StrLess(decls[j].Name, decls[i].Name)
        /\ \A p \in Reorderings : SortedOrders(Generate(p)) = {decls}

\* g is inside the mutex of its collection: past Lock and before Unlock
Inside(g) == call[g].at \notin {"idle", "lock"}

\* No Add is partly applied to c: the map and the slice are allocated
\* together, every index in names has its element in slice, and that
\* element bears the name
Whole(c) ==
    /\ c.namesNil = c.sliceNil
    /\ \A n \in DOMAIN c.names :
           /\ c.names[n] + 1 \in DOMAIN c.slice
           /\ Name(c.slice[c.names[n] + 1]) = n

\* C13: under every interleaving of concurrent Add and Lookup calls, no
\* two calls are inside the mutex of one collection together and no Lookup
\* panics; a Lookup reads a collection to which no Add is partly applied;
\* when a call returns, the collection and the results are those of the
\* whole call applied to the collection as it was when the call took the
\* mutex; a successful Lookup(n) returns a record named n; a name is
\* registered at most once, and exactly once after an Add of it has
\* returned; and a call that waits for a mutex waits for a call on the same
\* package's collection.
C13_AddLookupAtomic ==
    /\ ~halted
    /\ \A g, h \in Callers :
           (g # h /\ Inside(g) /\ Inside(h)) => call[g].p # call[h].p
    /\ \A g \in Callers :
           LET c == call[g]
           IN  /\ c.at = "read" => Whole(heap[c.p].Symbols)
               /\ (c.at = "unlock" /\ c.op = "Add") =>
                      heap[c.p].Symbols = SymbolsAdd(c.pre, c.ss)
               /\ (c.at = "unlock" /\ c.op = "Lookup") =>
                      /\ heap[c.p].Symbols = c.pre
                      /\ c.sym = SymbolsLookup(c.pre, c.name).sym
                      /\ c.err = SymbolsLookup(c.pre, c.name).err
                      /\ c.err = NilError =>
                             /\ c.sym # NilSymbol
                             /\ Name(c.sym) = c.name
               /\ (c.at = "lock" /\ mutex[c.p] # 0) =>
                      /\ Inside(mutex[c.p])
                      /\ call[mutex[c.p]].p = c.p
               /\ Inside(g) => mutex[c.p] = g
    /\ \A p \in DOMAIN heap, n \in ConcNames :
           LET regs == {i \in DOMAIN heap[p].Symbols.slice :
                            Name(heap[p].Symbols.slice[i]) = n}
           IN  /\ Cardinality(regs) <= 1
               /\ <<p, n>> \in added => Cardinality(regs) = 1

\* An Add is partly applied to a collection (a name is in names, its element
\* not yet in slice) while a Lookup of that name on the same collection
\* waits for the mutex
C13_Witness ==
    \E g, h \in Callers :
        /\ call[g].op = "Add" /\ call[g].at = "append"
        /\ ~Whole(heap[call[g].p].Symbols)
        /\ call[h].op = "Lookup" /\ call[h].at = "lock"
        /\ call[h].p = call[g].p
        /\ call[h].name = call[g].name

====
